---------------------------- MODULE Spec2Model ----------------------------
(***************************************************************************)
(* Album store: POST /albums and GET /albums/:albumID in the two variants  *)
(* of the service.                                                         *)
(*   "s3"    : src/main.go          discrete columns, image put to S3      *)
(*   "local" : src/unnamed/part_000 JSON metadata column, image on disk    *)
(* A string is a sequence of one-character strings, so that parsing        *)
(* (strconv.Atoi), encoding (json.Marshal) and decoding (json.Unmarshal)   *)
(* are computed character by character.                                    *)
(***************************************************************************)
EXTENDS Integers, Sequences, FiniteSets, TLC

\* ------------------------------------------------------------- bounds
NumWorkers == 2
MaxReqs == 2

Workers == 1..NumWorkers
Variants == {"s3", "local"}

\* ------------------------------------------------------------- HTTP codes
StatusOK == 200
StatusBadRequest == 400
StatusNotFound == 404
StatusInternalServerError == 500

NoBody == [none |-> TRUE]

\* ------------------------------------------------------------- strings
DigitChars == <<"0", "1", "2", "3", "4", "5", "6", "7", "8", "9">>
Digits == {DigitChars[i] : i \in 1..10}

DigitVal(c) == CHOOSE i \in 0..9 : DigitChars[i + 1] = c

IsDigits(s) == \A i \in 1..Len(s) : s[i] \in Digits

RECURSIVE StripZeros(_)
StripZeros(s) ==
    IF s # <<>> /\ Head(s) = "0" THEN StripZeros(Tail(s)) ELSE s

\* a <= b for two digit strings of the same length
RECURSIVE LeqDigits(_, _)
LeqDigits(a, b) ==
    IF a = <<>> THEN TRUE
    ELSE IF DigitVal(Head(a)) < DigitVal(Head(b)) THEN TRUE
    ELSE IF DigitVal(Head(a)) > DigitVal(Head(b)) THEN FALSE
    ELSE LeqDigits(Tail(a), Tail(b))

\* a number may exceed 32 bits, so it is kept as sign and magnitude,
\* the magnitude a digit string without leading zeros (<<>> is zero)
Num(neg, mag) == [neg |-> neg /\ mag # <<>>, mag |-> mag]

RECURSIVE Itoa(_)
Itoa(n) ==
    IF n < 10 THEN <<DigitChars[n + 1]>>
    ELSE Itoa(n \div 10) \o <<DigitChars[(n % 10) + 1]>>

NumOfId(id) == Num(FALSE, StripZeros(Itoa(id)))

\* ------------------------------------------------------------- strconv.Atoi
\* 2^63 - 1 and 2^63, the bounds of int on a 64-bit build
MaxInt64 == <<"9","2","2","3","3","7","2","0","3","6","8","5","4","7","7","5","8","0","7">>
MinInt64Mag == <<"9","2","2","3","3","7","2","0","3","6","8","5","4","7","7","5","8","0","8">>

HasSign(s) == s # <<>> /\ Head(s) \in {"+", "-"}
Unsigned(s) == IF HasSign(s) THEN Tail(s) ELSE s
IsNeg(s) == s # <<>> /\ Head(s) = "-"

InRange(neg, mag) ==
    LET lim == IF neg THEN MinInt64Mag ELSE MaxInt64
    IN  \/ Len(mag) < Len(lim)
        \/ Len(mag) = Len(lim) /\ LeqDigits(mag, lim)

\* err == nil of strconv.Atoi(s)
AtoiOk(s) ==
    /\ Unsigned(s) # <<>>
    /\ IsDigits(Unsigned(s))
    /\ InRange(IsNeg(s), StripZeros(Unsigned(s)))

\* the int strconv.Atoi(s) returns (0 with a syntax error)
AtoiVal(s) ==
    IF Unsigned(s) # <<>> /\ IsDigits(Unsigned(s))
    THEN Num(IsNeg(s), StripZeros(Unsigned(s)))
    ELSE Num(FALSE, <<>>)

\* ------------------------------------------------------------- MySQL
\* WHERE id = ? with a string parameter: the string is converted to a number
\* from its longest numeric prefix (0 when there is none)
RECURSIVE DigitPrefix(_)
DigitPrefix(s) ==
    IF s # <<>> /\ Head(s) \in Digits
    THEN <<Head(s)>> \o DigitPrefix(Tail(s))
    ELSE <<>>

MySQLNum(s) == Num(IsNeg(s), StripZeros(DigitPrefix(Unsigned(s))))

\* a counter that does not advance
NextAutoInc_Stuck(n) == n

\* id INT AUTO_INCREMENT PRIMARY KEY: the counter after an insert took n
NextAutoInc(n) == n + 1

\* SELECT ... FROM albums WHERE id = key: the ids of the matching rows
QueryRow(tbl, key) == {i \in DOMAIN tbl : NumOfId(i) = key}

\* ------------------------------------------------------------- encoding/json
Hex4(c) ==
    CASE c = "<"   -> <<"0", "0", "3", "c">>
      [] c = "xFF" -> <<"f", "f", "f", "d">>
      [] OTHER     -> <<>>

\* one character of a string, as json.Marshal writes it: quote and backslash
\* escaped, HTML characters as \u00XX, a byte that is no valid UTF-8 as the escape of U+FFFD
EscapeChar(c) ==
    CASE c = "\"" -> <<"\\", "\"">>
      [] c = "\\" -> <<"\\", "\\">>
      [] c \in {"<", "xFF"} -> <<"\\", "u">> \o Hex4(c)
      [] OTHER -> <<c>>

RECURSIVE EncodeString(_)
EncodeString(s) ==
    IF s = <<>> THEN <<>>
    ELSE EscapeChar(Head(s)) \o EncodeString(Tail(s))

\* the character a \uXXXX escape stands for
Unhex4(h) ==
    CASE h = <<"0", "0", "3", "c">> -> "<"
      [] h = <<"f", "f", "f", "d">> -> "uFFFD"
      [] OTHER -> "?"

RECURSIVE DecodeString(_)
DecodeString(t) ==
    IF t = <<>> THEN <<>>
    ELSE IF Head(t) = "\\" /\ Len(t) >= 2
    THEN IF t[2] = "u" /\ Len(t) >= 6
         THEN <<Unhex4(SubSeq(t, 3, 6))>> \o DecodeString(SubSeq(t, 7, Len(t)))
         ELSE <<t[2]>> \o DecodeString(SubSeq(t, 3, Len(t)))
    ELSE <<Head(t)>> \o DecodeString(Tail(t))

\* a string literal is well formed when no escape is cut short
RECURSIVE ValidLiteral(_)
ValidLiteral(t) ==
    IF t = <<>> THEN TRUE
    ELSE IF Head(t) = "\""  THEN FALSE
    ELSE IF Head(t) = "\\"
    THEN IF Len(t) < 2 THEN FALSE
         ELSE IF t[2] = "u"
         THEN Len(t) >= 6 /\ ValidLiteral(SubSeq(t, 7, Len(t)))
         ELSE t[2] \in {"\"", "\\"} /\ ValidLiteral(SubSeq(t, 3, Len(t)))
    ELSE ValidLiteral(Tail(t))

\* json.Marshal(AlbumMetadata{...}): the object, each value a string literal
Marshal(m) ==
    [artist |-> EncodeString(m.artist),
     title  |-> EncodeString(m.title),
     year   |-> EncodeString(m.year)]

UnmarshalOk(j) ==
    ValidLiteral(j.artist) /\ ValidLiteral(j.title) /\ ValidLiteral(j.year)

Unmarshal(j) ==
    [artist |-> DecodeString(j.artist),
     title  |-> DecodeString(j.title),
     year   |-> DecodeString(j.year)]

\* ------------------------------------------------------------- requests
\* multipart text fields, field name -> value: fields named as the API names
\* them, the same with characters json.Marshal escapes or replaces, and
\* fields named profile[...]
PlainForm == [artist |-> <<"a">>, title |-> <<>>, year |-> <<"1", "9">>]
OddForm == [artist |-> <<"xFF">>, title |-> <<"<">>, year |-> <<"\\", "\"">>]
ProfileForm ==
    ("profile[artist]" :> <<"b">>) @@ ("profile[title]" :> <<"c">>)
        @@ ("profile[year]" :> <<>>)

\* the uploads tried: file name, the file as the chunks io.Copy moves one at
\* a time, and the text fields; two share a file name, one has no extension
Uploads ==
    { [filename |-> <<"c", ".", "j">>, image |-> <<"a1", "a2">>, form |-> PlainForm],
      [filename |-> <<"c", ".", "j">>, image |-> <<"b1">>, form |-> ProfileForm],
      [filename |-> <<"d">>, image |-> <<"b1">>, form |-> OddForm] }

BigId == <<"9","2","2","3","3","7","2","0","3","6","8","5","4","7","7","5","8","0","8">>

\* the :albumID path parameters tried
IdStrs == {<<"1">>, <<"2">>, <<"0", "3">>, <<"-", "1">>, <<"1", "a">>, BigId}

\* c.PostForm(name): the value of the field, "" when the field is absent
PostForm(form, name) == IF name \in DOMAIN form THEN form[name] ELSE <<>>

\* the names of the three text fields the handler reads
FieldName(v, f) ==
    IF v = "s3"
    THEN CASE f = "artist" -> "profile[artist]"
           [] f = "title"  -> "profile[title]"
           [] f = "year"   -> "profile[year]"
    ELSE f

\* filepath.Ext(name): the suffix from the last dot, "" without a dot
RECURSIVE Ext(_)
Ext(name) ==
    IF name = <<>> THEN <<>>
    ELSE IF Ext(Tail(name)) # <<>> THEN Ext(Tail(name))
    ELSE IF Head(name) = "." THEN name
    ELSE <<>>

\* fmt.Sprintf("https://%s.s3.amazonaws.com/%s", bucket, "images/"+uuid+ext)
S3URL(uuid, ext) == [store |-> "s3", key |-> <<uuid, ext>>]

\* filepath.Join("./images", imageFile.Filename)
LocalPath(name) == [store |-> "images", key |-> name]

\* a file after a write of one chunk at offset off through a descriptor;
\* a write past the end leaves a hole that reads as zero bytes
RECURSIVE Zeros(_)
Zeros(n) == IF n <= 0 THEN <<>> ELSE <<"00">> \o Zeros(n - 1)

WriteAt(content, off, chunk) ==
    IF off < Len(content)
    THEN [content EXCEPT ![off + 1] = chunk]
    ELSE content \o Zeros(off - Len(content)) \o <<chunk>>

\* ------------------------------------------------------------- state
VARIABLES
    variant,       \* which of the two programs runs
    rows,          \* table albums: id -> row
    nextId,        \* the table's AUTO_INCREMENT counter
    blobs,         \* S3 bucket: object key -> bytes
    files,         \* ./images: file name -> bytes
    uuids,         \* number of uuid.New() calls so far
    wk,            \* per HTTP worker: the request in progress and its response
    reqCount,      \* requests accepted so far
    created,       \* history: request -> what its 200 response to POST reported
    rowReq,        \* history: id -> the request whose insert made the row
    blobOK,        \* history: requests whose blob write reported success
    lastFinished,  \* history: file name -> bytes of the upload whose write ended last
    failedWrite    \* history: file names a failed write has touched

vars == <<variant, rows, nextId, blobs, files, uuids, wk, reqCount,
          created, rowReq, blobOK, lastFinished, failedWrite>>

persistent == <<rows, nextId, blobs, files>>
history == <<created, rowReq, blobOK, lastFinished, failedWrite>>

Idle ==
    [pc |-> "idle", kind |-> "none", req |-> 0, hasImage |-> FALSE,
     filename |-> <<>>,
     image |-> <<>>, form |-> <<>>, meta |-> NoBody, idStr |-> <<>>,
     key |-> Num(FALSE, <<>>), imageURL |-> NoBody, imageSize |-> 0, off |-> 0,
     status |-> 0, body |-> NoBody, queried |-> FALSE, dbErr |-> FALSE,
     hit |-> FALSE, blobFailed |-> FALSE, insertFailed |-> FALSE]

Init ==
    /\ variant \in Variants
    /\ rows = <<>>
    /\ nextId = 1
    /\ blobs = <<>>
    /\ files = <<>>
    /\ uuids = 0
    /\ wk = [w \in Workers |-> Idle]
    /\ reqCount = 0
    /\ created = <<>>
    /\ rowReq = <<>>
    /\ blobOK = {}
    /\ lastFinished = <<>>
    /\ failedWrite = {}

\* a request is served by a goroutine of its own; which one is immaterial, so
\* the lowest free slot takes it
Free(w) ==
    /\ reqCount < MaxReqs
    /\ wk[w].pc \in {"idle", "done"}
    /\ \A v \in Workers : v < w => wk[v].pc \notin {"idle", "done"}

\* c.JSON(status, body); return: the handler's locals die with it
Respond(r, status, body) ==
    [r EXCEPT !.pc = "done", !.status = status, !.body = body,
              !.form = <<>>, !.meta = NoBody, !.off = 0,
              !.key = Num(FALSE, <<>>), !.imageSize = 0]

\* ------------------------------------------------------------- POST /albums
\* the three text fields as the handler reads them
ReadMeta(v, form) ==
    [artist |-> PostForm(form, FieldName(v, "artist")),
     title  |-> PostForm(form, FieldName(v, "title")),
     year   |-> PostForm(form, FieldName(v, "year"))]

\* the handler without the check of FormFile's error
NewAlbumParse_NoCheck(v, r) ==
    [r EXCEPT !.pc = IF v = "s3" THEN "upload" ELSE "create",
              !.meta = ReadMeta(v, r.form)]

\* the handler up to its first use of a store: FormFile("image") fails when
\* the part is missing, else the text fields are read
NewAlbumParse(v, r) ==
    IF ~r.hasImage
    THEN Respond(r, StatusBadRequest, [error |-> "Invalid image file"])
    ELSE [r EXCEPT !.pc = IF v = "s3" THEN "upload" ELSE "create",
                   !.meta = ReadMeta(v, r.form)]

\* the request arrives, with or without the image part
NewAlbumBegin(w) ==
    /\ Free(w)
    /\ \/ wk' = [wk EXCEPT ![w] =
             NewAlbumParse(variant,
                 [Idle EXCEPT !.kind = "create", !.req = reqCount + 1,
                              !.form = PlainForm])]
       \/ \E u \in Uploads :
             wk' = [wk EXCEPT ![w] =
                NewAlbumParse(variant,
                    [Idle EXCEPT !.kind = "create", !.req = reqCount + 1,
                                 !.hasImage = TRUE, !.form = u.form,
                                 !.filename = u.filename, !.image = u.image])]
    /\ reqCount' = reqCount + 1
    /\ UNCHANGED <<variant, persistent, uuids, history>>

\* the upload fails and the handler, its return missing, goes on to the insert
UploadToS3Fail_NoReturn(w) ==
    /\ variant = "s3" /\ wk[w].pc = "upload"
    /\ wk' = [wk EXCEPT ![w] = [@ EXCEPT !.pc = "insert", !.blobFailed = TRUE]]
    /\ UNCHANGED <<variant, persistent, uuids, reqCount, history>>

\* uploadToS3: the temp file, the copy or PutObject fails and nothing is stored
UploadToS3Fail(w) ==
    /\ variant = "s3" /\ wk[w].pc = "upload"
    /\ wk' = [wk EXCEPT ![w] =
          Respond([@ EXCEPT !.blobFailed = TRUE], StatusInternalServerError,
                  [error |-> "Failed to upload image to S3"])]
    /\ UNCHANGED <<variant, persistent, uuids, reqCount, history>>

\* uploadToS3: the object is put under a fresh key; URL and size are returned
UploadToS3(w) ==
    /\ variant = "s3" /\ wk[w].pc = "upload"
    /\ LET key == <<uuids + 1, Ext(wk[w].filename)>>
       IN  /\ blobs' = (key :> wk[w].image) @@ blobs
           /\ wk' = [wk EXCEPT ![w] =
                 [@ EXCEPT !.pc = "insert",
                           !.imageURL = S3URL(uuids + 1, Ext(wk[w].filename)),
                           !.imageSize = Len(wk[w].image)]]
    /\ uuids' = uuids + 1
    /\ blobOK' = blobOK \cup {wk[w].req}
    /\ UNCHANGED <<variant, rows, nextId, files, reqCount, created, rowReq,
                   lastFinished, failedWrite>>

\* saveImageLocally: MkdirAll, Open or os.Create fails, the file is untouched
SaveImageCreateFail(w) ==
    /\ variant = "local" /\ wk[w].pc = "create"
    /\ wk' = [wk EXCEPT ![w] =
          Respond([@ EXCEPT !.blobFailed = TRUE], StatusInternalServerError,
                  [error |-> "failed to save image"])]
    /\ UNCHANGED <<variant, persistent, uuids, reqCount, history>>

\* what the handler does once io.Copy returned nil
AfterCopy(r) ==
    [r EXCEPT !.pc = "insert", !.imageURL = LocalPath(r.filename)]

\* saveImageLocally: os.Create makes the file or truncates the existing one
SaveImageCreate(w) ==
    /\ variant = "local" /\ wk[w].pc = "create"
    /\ files' = (wk[w].filename :> <<>>) @@ files
    /\ IF wk[w].image = <<>>
       THEN /\ wk' = [wk EXCEPT ![w] = AfterCopy(@)]
            /\ blobOK' = blobOK \cup {wk[w].req}
            /\ lastFinished' = (wk[w].filename :> <<>>) @@ lastFinished
       ELSE /\ wk' = [wk EXCEPT ![w] = [@ EXCEPT !.pc = "copy", !.off = 0]]
            /\ UNCHANGED <<blobOK, lastFinished>>
    /\ UNCHANGED <<variant, rows, nextId, blobs, uuids, reqCount, created,
                   rowReq, failedWrite>>

\* io.Copy: a read or a write fails; what was written so far stays
SaveImageCopyFail(w) ==
    /\ variant = "local" /\ wk[w].pc = "copy"
    /\ wk' = [wk EXCEPT ![w] =
          Respond([@ EXCEPT !.blobFailed = TRUE], StatusInternalServerError,
                  [error |-> "failed to write image file"])]
    /\ failedWrite' = failedWrite \cup {wk[w].filename}
    /\ UNCHANGED <<variant, persistent, uuids, reqCount, created, rowReq,
                   blobOK, lastFinished>>

\* io.Copy: the next chunk is written at this descriptor's offset
SaveImageCopy(w) ==
    /\ variant = "local" /\ wk[w].pc = "copy"
    /\ LET r == wk[w]
           last == r.off + 1 = Len(r.image)
       IN  /\ files' = [files EXCEPT ![r.filename] =
                           WriteAt(@, r.off, r.image[r.off + 1])]
           /\ IF last
              THEN /\ wk' = [wk EXCEPT ![w] = AfterCopy([r EXCEPT !.off = r.off + 1])]
                   /\ blobOK' = blobOK \cup {r.req}
                   /\ lastFinished' = (r.filename :> r.image) @@ lastFinished
              ELSE /\ wk' = [wk EXCEPT ![w] = [r EXCEPT !.off = r.off + 1]]
                   /\ UNCHANGED <<blobOK, lastFinished>>
    /\ UNCHANGED <<variant, rows, nextId, blobs, uuids, reqCount, created,
                   rowReq, failedWrite>>

\* the row the INSERT statement writes
NewRow(v, r) ==
    IF v = "s3"
    THEN [image_url |-> r.imageURL, artist |-> r.meta.artist,
          title |-> r.meta.title, year |-> r.meta.year]
    ELSE [image_url |-> r.imageURL, metadata |-> Marshal(r.meta)]

\* the response reports the counter after the insert instead of the row's id
CreatedBody_Next(v, id, r) ==
    IF v = "s3"
    THEN [albumID |-> id + 1, imageSize |-> r.imageSize]
    ELSE [albumID |-> id + 1, imagePath |-> r.imageURL]

\* the body of the 200 response to POST /albums
CreatedBody(v, id, r) ==
    IF v = "s3"
    THEN [albumID |-> id, imageSize |-> r.imageSize]
    ELSE [albumID |-> id, imagePath |-> r.imageURL]

\* an insert that replaces the table's content
InsertRow_Replace(tbl, id, row) == (id :> row)

\* the table after the INSERT of row under the id the counter assigns
InsertRow(tbl, id, row) == (id :> row) @@ tbl

\* a failed insert followed by a compensating delete of the blob just written
NewAlbumInsertFail_Rollback(w) ==
    /\ wk[w].pc = "insert"
    /\ wk' = [wk EXCEPT ![w] =
          Respond([@ EXCEPT !.insertFailed = TRUE], StatusInternalServerError,
                  [error |-> "db"])]
    /\ nextId' \in {nextId, NextAutoInc(nextId)}
    /\ blobs' = [k \in DOMAIN blobs \ {wk[w].imageURL.key} |-> blobs[k]]
    /\ files' = [k \in DOMAIN files \ {wk[w].imageURL.key} |-> files[k]]
    /\ UNCHANGED <<variant, rows, uuids, reqCount, history>>

\* db.Exec(INSERT ...) returns an error: no row; the counter may have moved
NewAlbumInsertFail(w) ==
    /\ wk[w].pc = "insert"
    /\ wk' = [wk EXCEPT ![w] =
          Respond([@ EXCEPT !.insertFailed = TRUE], StatusInternalServerError,
                  [error |-> "db"])]
    /\ nextId' \in {nextId, NextAutoInc(nextId)}
    /\ UNCHANGED <<variant, rows, blobs, files, uuids, reqCount, history>>

\* db.Exec(INSERT ...) succeeds; LastInsertId is reported
NewAlbumInsert(w) ==
    /\ wk[w].pc = "insert"
    /\ LET r == wk[w]
           id == nextId
       IN  /\ rows' = InsertRow(rows, id, NewRow(variant, r))
           /\ nextId' = NextAutoInc(nextId)
           /\ wk' = [wk EXCEPT ![w] =
                 Respond(r, StatusOK, CreatedBody(variant, id, r))]
           /\ created' = (r.req :> [id |-> CreatedBody(variant, id, r).albumID,
                                    form |-> r.form,
                                    imageURL |-> r.imageURL]) @@ created
           /\ rowReq' = (id :> r.req) @@ rowReq
    /\ UNCHANGED <<variant, blobs, files, uuids, reqCount, blobOK,
                   lastFinished, failedWrite>>

\* ------------------------------------------------------------- GET /albums/:albumID
\* the handler without the check of Atoi's error: the query runs with id 0
GetAlbumParse_IgnoreErr(v, r, tbl) ==
    IF v = "s3"
    THEN [r EXCEPT !.pc = "query", !.key = AtoiVal(r.idStr)]
    ELSE [r EXCEPT !.pc = "query", !.key = MySQLNum(r.idStr)]

\* the handler up to the query: main.go parses the id with strconv.Atoi and
\* answers 400 when that fails, the JSON variant hands the text to the query
GetAlbumParse(v, r, tbl) ==
    IF v = "s3"
    THEN IF ~AtoiOk(r.idStr)
         THEN Respond([r EXCEPT !.hit = QueryRow(tbl, AtoiVal(r.idStr)) # {}],
                      StatusBadRequest, [error |-> "Invalid album ID"])
         ELSE [r EXCEPT !.pc = "query", !.key = AtoiVal(r.idStr)]
    ELSE [r EXCEPT !.pc = "query", !.key = MySQLNum(r.idStr)]

\* the request arrives
GetAlbumBegin(w) ==
    /\ Free(w)
    /\ \E idStr \in IdStrs :
         wk' = [wk EXCEPT ![w] =
            GetAlbumParse(variant,
                [Idle EXCEPT !.kind = "get", !.req = reqCount + 1,
                             !.idStr = idStr], rows)]
    /\ reqCount' = reqCount + 1
    /\ UNCHANGED <<variant, persistent, uuids, history>>

\* the Album / AlbumInfo value a row is scanned into
AlbumOf(v, id, row) ==
    IF v = "s3"
    THEN [albumID |-> id, image_url |-> row.image_url, artist |-> row.artist,
          title |-> row.title, year |-> row.year]
    ELSE [albumID |-> id, image_url |-> row.image_url,
          artist |-> Unmarshal(row.metadata).artist,
          title |-> Unmarshal(row.metadata).title,
          year |-> Unmarshal(row.metadata).year]

\* sql.ErrNoRows handled like any other error
Answer_NoRowsAsError(v, r, tbl, hits) ==
    IF hits = {}
    THEN Respond(r, StatusInternalServerError, [error |-> "sql: no rows"])
    ELSE LET id == CHOOSE i \in hits : TRUE
         IN  IF v = "local" /\ ~UnmarshalOk(tbl[id].metadata)
             THEN Respond(r, StatusInternalServerError,
                          [error |-> "Failed to decode metadata"])
             ELSE Respond(r, StatusOK, AlbumOf(v, id, tbl[id]))

\* the answer to a query that found the matching ids hits
Answer(v, r, tbl, hits) ==
    IF hits = {}
    THEN Respond(r, StatusNotFound, [error |-> "not found"])
    ELSE LET id == CHOOSE i \in hits : TRUE
         IN  IF v = "local" /\ ~UnmarshalOk(tbl[id].metadata)
             THEN Respond(r, StatusInternalServerError,
                          [error |-> "Failed to decode metadata"])
             ELSE Respond(r, StatusOK, AlbumOf(v, id, tbl[id]))

\* db.QueryRow(...).Scan(...) returns an error other than sql.ErrNoRows
GetAlbumQueryFail(w) ==
    /\ wk[w].pc = "query"
    /\ wk' = [wk EXCEPT ![w] =
          Respond([@ EXCEPT !.queried = TRUE, !.dbErr = TRUE,
                            !.hit = QueryRow(rows, wk[w].key) # {}],
                  StatusInternalServerError, [error |-> "db"])]
    /\ UNCHANGED <<variant, persistent, uuids, reqCount, history>>

\* db.QueryRow(...).Scan(...): the row, or sql.ErrNoRows
GetAlbumQuery(w) ==
    /\ wk[w].pc = "query"
    /\ LET hits == QueryRow(rows, wk[w].key)
       IN  wk' = [wk EXCEPT ![w] =
              Answer(variant, [@ EXCEPT !.queried = TRUE, !.hit = hits # {}],
                     rows, hits)]
    /\ UNCHANGED <<variant, persistent, uuids, reqCount, history>>

\* ------------------------------------------------------------- specification
Next ==
    \E w \in Workers :
        \/ NewAlbumBegin(w)
        \/ UploadToS3Fail(w)
        \/ UploadToS3(w)
        \/ SaveImageCreateFail(w)
        \/ SaveImageCreate(w)
        \/ SaveImageCopyFail(w)
        \/ SaveImageCopy(w)
        \/ NewAlbumInsertFail(w)
        \/ NewAlbumInsert(w)
        \/ GetAlbumBegin(w)
        \/ GetAlbumQueryFail(w)
        \/ GetAlbumQuery(w)

Spec == Init /\ [][Next]_vars

\* ------------------------------------------------------------- properties
DoneGet(w) == wk[w].pc = "done" /\ wk[w].kind = "get"
DoneCreate(w) == wk[w].pc = "done" /\ wk[w].kind = "create"

\* the text fields artist, title and year of an upload, when it carries them
Carries(form) == {"artist", "title", "year"} \subseteq DOMAIN form
Submitted(form) ==
    [artist |-> form["artist"], title |-> form["title"], year |-> form["year"]]
Returned(body) ==
    [artist |-> body.artist, title |-> body.title, year |-> body.year]

\* C1: in both variants, an upload with an image and the text fields artist,
\* title and year that createAlbum answered with id i is read back by
\* getAlbum(i) with artist, title and year exactly as submitted.
C1_RoundTrip ==
    \A w \in Workers, r \in DOMAIN created :
        ( /\ DoneGet(w)
          /\ wk[w].status = StatusOK
          /\ wk[w].body.albumID = created[r].id
          /\ Carries(created[r].form) )
        => Returned(wk[w].body) = Submitted(created[r].form)

C2_RecordExists ==
    \A r \in DOMAIN created :
        /\ created[r].id \in DOMAIN rows
        /\ rowReq[created[r].id] = r
        /\ rows[created[r].id].image_url = created[r].imageURL

C2_LaterGetFinds ==
    \A w \in Workers, r \in DOMAIN created :
        ( /\ wk[w].pc = "query"
          /\ wk[w].key = NumOfId(created[r].id)
          /\ wk'[w].pc = "done"
          /\ ~wk'[w].dbErr )
        => /\ wk'[w].status = StatusOK
           /\ wk'[w].body.albumID = created[r].id
           /\ wk'[w].body.image_url = created[r].imageURL

\* C2: once createAlbum has answered 200 with id i, the row i exists and is
\* the row this request's insert made, and a getAlbum(i) whose query runs
\* after that and is answered by the database returns that album, never 404.
C2_CreatedIsFound == [](C2_RecordExists) /\ [][C2_LaterGetFinds]_vars

C2_Witness ==
    \E w \in Workers, r \in DOMAIN created :
        /\ DoneGet(w) /\ wk[w].req > r
        /\ wk[w].status = StatusOK
        /\ wk[w].body.albumID = created[r].id

\* C3: any two createAlbum calls that both succeeded, one after the other or
\* interleaved, reported different album ids.
C3_DistinctIds ==
    \A r1, r2 \in DOMAIN created :
        r1 # r2 => created[r1].id # created[r2].id

\* two uploads in flight at the same time have both succeeded
C3_Witness ==
    \E w1, w2 \in Workers :
        /\ w1 # w2
        /\ DoneCreate(w1) /\ wk[w1].status = StatusOK
        /\ DoneCreate(w2) /\ wk[w2].status = StatusOK
        /\ {wk[w1].req, wk[w2].req} \subseteq DOMAIN created

\* text that is a non-negative integer: one or more decimal digits
IsNonNegInt(s) == s # <<>> /\ IsDigits(s)

\* text that is a decimal integer within the int type: an optional sign, one
\* or more digits, at most 2^63 - 1 (2^63 below zero)
IsIntText(s) ==
    LET d == IF s # <<>> /\ Head(s) \in {"+", "-"} THEN Tail(s) ELSE s
    IN  /\ d # <<>>
        /\ IsDigits(d)
        /\ InRange(s # <<>> /\ Head(s) = "-", StripZeros(d))

\* C4 as stated: getAlbum with an identifier that is no non-negative integer
\* ends in a client-input error and issues no database query.
C4_MalformedNeverQueried ==
    \A w \in Workers :
        (DoneGet(w) /\ ~IsNonNegInt(wk[w].idStr))
        => (wk[w].status = StatusBadRequest /\ ~wk[w].queried)

\* C4 amended: in the S3 variant an identifier strconv.Atoi rejects is answered
\* 400 without a query, while an identifier it accepts, a negative one
\* included, is queried; the local variant always queries and never answers 400.
C4_AtoiRejectNeverQueried ==
    \A w \in Workers :
        DoneGet(w) =>
            /\ (variant = "s3" /\ ~IsIntText(wk[w].idStr))
                   => (wk[w].status = StatusBadRequest /\ ~wk[w].queried)
            /\ (variant = "s3" /\ IsIntText(wk[w].idStr))
                   => (wk[w].queried /\ wk[w].status # StatusBadRequest)
            /\ variant = "local"
                   => (wk[w].queried /\ wk[w].status # StatusBadRequest)

C4_Witness ==
    \E w \in Workers :
        /\ variant = "s3" /\ DoneGet(w)
        /\ wk[w].idStr = <<"1", "a">>
        /\ wk[w].status = StatusBadRequest /\ ~wk[w].queried

\* C5 as stated: with the repository reachable, getAlbum with a well-formed
\* numeric identifier that no album was assigned answers 404, nothing else.
C5_UnknownIdNotFound ==
    \A w \in Workers :
        (DoneGet(w) /\ IsNonNegInt(wk[w].idStr) /\ ~wk[w].hit /\ ~wk[w].dbErr)
        => wk[w].status = StatusNotFound

\* C5 amended: the same for every identifier that fits the int type; a digit
\* string beyond it is answered 400 by the S3 variant and 404 by the local one.
C5_UnknownIntIdNotFound ==
    \A w \in Workers :
        (DoneGet(w) /\ IsNonNegInt(wk[w].idStr) /\ ~wk[w].hit /\ ~wk[w].dbErr)
        => wk[w].status =
              IF variant = "s3" /\ ~InRange(FALSE, StripZeros(wk[w].idStr))
              THEN StatusBadRequest ELSE StatusNotFound

\* an id below the counter that no row has, looked up after a row was made
C5_Witness ==
    \E w \in Workers :
        /\ DoneGet(w) /\ wk[w].idStr = <<"2">>
        /\ ~wk[w].hit /\ ~wk[w].dbErr
        /\ wk[w].status = StatusNotFound
        /\ DOMAIN rows # {}

C6_Step ==
    \A w \in Workers :
        ( /\ wk'[w].kind = "create"
          /\ wk'[w].req # wk[w].req
          /\ ~wk'[w].hasImage )
        => /\ wk'[w].pc = "done"
           /\ wk'[w].status = StatusBadRequest
           /\ rows' = rows /\ nextId' = nextId
           /\ blobs' = blobs /\ files' = files

\* C6: createAlbum on a request without the image part answers 400 in the
\* step that takes the request, and that step changes neither the table
\* (its rows and its counter) nor the blob store.
C6_NoImageNoEffect == [][C6_Step]_vars

C6_Witness ==
    \E w \in Workers :
        /\ DoneCreate(w) /\ ~wk[w].hasImage
        /\ wk[w].status = StatusBadRequest
        /\ DOMAIN rows # {}

\* C7: the insert is attempted only after the blob write of the same call has
\* succeeded: a call whose blob write failed has answered 500 and neither
\* attempted nor made an insert, and every row's request wrote its blob.
C7_InsertAfterBlob ==
    /\ \A id \in DOMAIN rows : rowReq[id] \in blobOK
    /\ \A w \in Workers :
          /\ wk[w].pc = "insert" => wk[w].req \in blobOK
          /\ wk[w].blobFailed =>
                /\ wk[w].pc = "done"
                /\ wk[w].status = StatusInternalServerError
                /\ ~wk[w].insertFailed
                /\ wk[w].req \notin blobOK
                /\ \A id \in DOMAIN rows : rowReq[id] # wk[w].req

C7_Witness ==
    \E w \in Workers :
        /\ DoneCreate(w) /\ wk[w].blobFailed
        /\ wk[w].status = StatusInternalServerError

\* the blob a call wrote is still in its store
BlobPresent(url) ==
    IF url.store = "s3" THEN url.key \in DOMAIN blobs
    ELSE url.key \in DOMAIN files

\* a call whose blob write succeeded and whose insert failed
InsertFailedCall(w) == DoneCreate(w) /\ wk[w].insertFailed

\* C8 as stated: after a blob write that succeeded and an insert that failed
\* the answer is 500, the call made no row, its blob is still stored, and no
\* row references that blob.
C8_OrphanUnreferenced ==
    \A w \in Workers :
        InsertFailedCall(w) =>
            /\ wk[w].status = StatusInternalServerError
            /\ wk[w].req \in blobOK
            /\ \A id \in DOMAIN rows : rowReq[id] # wk[w].req
            /\ BlobPresent(wk[w].imageURL)
            /\ \A id \in DOMAIN rows : rows[id].image_url # wk[w].imageURL

\* C8 amended: the same, except that in the local variant the path may be
\* referenced by rows of other calls (uploads of the same file name); in the
\* S3 variant no row references the object and it holds the call's bytes.
C8_BlobLeftBehind ==
    \A w \in Workers :
        InsertFailedCall(w) =>
            /\ wk[w].status = StatusInternalServerError
            /\ wk[w].req \in blobOK
            /\ \A id \in DOMAIN rows : rowReq[id] # wk[w].req
            /\ BlobPresent(wk[w].imageURL)
            /\ variant = "s3" =>
                  /\ blobs[wk[w].imageURL.key] = wk[w].image
                  /\ \A id \in DOMAIN rows : rows[id].image_url # wk[w].imageURL

C8_Witness ==
    \E w \in Workers :
        /\ InsertFailedCall(w)
        /\ wk[w].status = StatusInternalServerError
        /\ BlobPresent(wk[w].imageURL)

\* no write of the file is in progress
Quiet(fn) == \A w \in Workers : ~(wk[w].pc = "copy" /\ wk[w].filename = fn)

\* C9: in the local variant every record's image path is the literal file
\* name under ./images, and once the writes of a file name have ended (none
\* of them failed) the file holds exactly the bytes of the upload whose write
\* ended last.
C9_LastWriteWins ==
    variant = "local" =>
        /\ \A w \in Workers :
              (DoneCreate(w) /\ wk[w].status = StatusOK)
              => wk[w].body.imagePath = LocalPath(wk[w].filename)
        /\ \A fn \in DOMAIN lastFinished :
              (Quiet(fn) /\ fn \notin failedWrite)
              => files[fn] = lastFinished[fn]

C10_Step ==
    /\ \A id \in DOMAIN rows :
          /\ id \in DOMAIN rows' /\ rows'[id] = rows[id]
          /\ rowReq'[id] = rowReq[id]
          /\ id < nextId /\ nextId <= nextId'
    /\ \A w \in Workers :
          (wk'[w] # wk[w] /\ wk'[w].kind = "get")
          => (rows' = rows /\ nextId' = nextId /\ blobs' = blobs /\ files' = files)
    /\ \A w \in Workers :
          (wk'[w].pc = "done" /\ wk'[w].kind = "get" /\ wk'[w].status = StatusOK)
          => /\ wk'[w].body.albumID \in DOMAIN rows'
             /\ wk'[w].body =
                   AlbumOf(variant, wk'[w].body.albumID, rows'[wk'[w].body.albumID])

\* C10: a row, once made, is never changed or removed and its id is never
\* assigned again; a getAlbum step changes neither the table nor the blob
\* store; a 200 answer of getAlbum is the row as it stands.
C10_WriteOnce == [][C10_Step]_vars

\* a row exists and a request that came after its upload has been answered
C10_Witness ==
    \E id \in DOMAIN rows, w \in Workers :
        wk[w].pc = "done" /\ wk[w].req > rowReq[id]

=============================================================================
